---- MODULE Spec2Model ----
(***************************************************************************)
(* A model of the finite-state-machine validator and execution engine of   *)
(* src/src/fsm.rs: validate_parsed_fsm builds an FSM from a ParsedFSM, and *)
(* FSM::run walks it over an input string.                                 *)
(*                                                                         *)
(* Strings are sequences of characters, so that a character of a state     *)
(* name and an input symbol can be the same character.  A Rust enum value  *)
(* is a record with a `variant` field.  A HashSet is a TLA+ set together   *)
(* with the insert and get of the element type's Eq implementation; the    *)
(* order in which a HashSet is iterated is chosen by the caller of the     *)
(* operators that iterate it.                                              *)
(***************************************************************************)
EXTENDS Integers, Sequences, FiniteSets, TLC

\* Bounds of the model.
MaxStates == 2
MaxTrans == 2
MaxInput == 2
MaxSampleInput == 4

\* The characters declared transitions draw their symbol from, the state
\* names of the source text, and the characters of an input string.
Chars == {"0", "1"}
Names == {<<"A">>, <<"0">>}
InputChars == Chars

SeqsUpTo(S, n) == UNION {[1..k -> S] : k \in 0..n}

\* All orders in which the elements of a finite set can be visited.
Orders(S) == {f \in [1..Cardinality(S) -> S] : \A i, j \in 1..Cardinality(S) : f[i] = f[j] => i = j}

(***************************************************************************)
(* fsm_parser.rs: the parser's output types.                               *)
(***************************************************************************)
ParsedState == [variant : {"State", "AcceptState"}, name : Names]

ParsedTransition == [input : Chars, start_state : Names, end_state : Names]

\* The transitions blocks of the source texts considered: one to MaxTrans
\* transition lines (many1(transition_parser) never returns an empty
\* vector), after which the last line may be written once more.
TransitionBlocks ==
    LET lines == SeqsUpTo(ParsedTransition, MaxTrans) \ {<<>>}
    IN lines \cup {Append(block, block[Len(block)]) : block \in lines}

ParsedFSM == [start_state : Names, states : SeqsUpTo(ParsedState, MaxStates), transitions : TransitionBlocks]

(***************************************************************************)
(* fsm.rs: State, Transition and their equality.                           *)
(***************************************************************************)
State(name) == [variant |-> "State", name |-> name]

AcceptState(name) == [variant |-> "AcceptState", name |-> name]

\* impl PartialEq for State: the names are compared, the variant is not.
StateEq(a, b) == a.name = b.name

get_name(s) == s.name

Transition(input, start_state, end_state) == [input |-> input, start_state |-> start_state, end_state |-> end_state]

\* impl PartialEq for Transition: input and start_state only.
TransitionEq(a, b) == a.input = b.input /\ StateEq(a.start_state, b.start_state)

\* HashSet::insert: an element equal to one already in the set is not added
\* and the stored one is kept.
HashSetInsertState(set, s) == IF \E x \in set : StateEq(x, s) THEN set ELSE set \cup {s}

HashSetInsertTransition(set, t) == IF \E x \in set : TransitionEq(x, t) THEN set ELSE set \cup {t}

\* HashSet::get: the stored elements equal to the probe (at most one).
HashSetGetTransition(set, probe) == {t \in set : TransitionEq(t, probe)}

(***************************************************************************)
(* fsm.rs: FSMError and the results of validate_parsed_fsm and FSM::run.   *)
(***************************************************************************)
None == [kind |-> "None"]

MissingTransition(c, state) == [kind |-> "MissingTransition", c |-> c, state |-> state]

ExtraTransition(a, b) == [kind |-> "ExtraTransition", a |-> a, b |-> b]

UnknownState(name) == [kind |-> "UnknownState", name |-> name]

NoStartState == [kind |-> "NoStartState"]

CharNotInInputAlphabet(c) == [kind |-> "CharNotInInputAlphabet", c |-> c]

OkFSM(start_state, transitions, input_alphabet) == [kind |-> "Ok", fsm |-> [start_state |-> start_state, transitions |-> transitions, input_alphabet |-> input_alphabet]]

OkBool(b) == [kind |-> "Ok", value |-> b]

\* The expect of FSM::run failing: the thread panics.
Panic == [kind |-> "Panic"]

(***************************************************************************)
(* fsm.rs: validate_parsed_fsm.                                            *)
(***************************************************************************)
\* The State a ParsedState is turned into (lines 138-149).
DeclaredIdentity(state) == IF state.variant = "State" THEN State(state.name) ELSE AcceptState(state.name)

\* for state in parsed_fsm.states: every declaration is inserted into the
\* states set, and a declaration named as the start state overwrites
\* start_state.
RECURSIVE StatesLoop(_, _, _)
StatesLoop(parsed_fsm, i, acc) ==
    IF i > Len(parsed_fsm.states) THEN acc
    ELSE LET state == parsed_fsm.states[i]
         IN StatesLoop(parsed_fsm, i + 1,
                [states |-> HashSetInsertState(acc.states, DeclaredIdentity(state)),
                 start_state |-> IF state.name = parsed_fsm.start_state THEN DeclaredIdentity(state) ELSE acc.start_state])

\* DeriveAlphabet with the insert outside the loop: only the first
\* transition's symbol is recorded.
DeriveAlphabetFirstOnly(parsed_fsm) == {parsed_fsm.transitions[1].input}

\* for transition in &parsed_fsm.transitions: input_alphabet.insert(..).
DeriveAlphabet(parsed_fsm) == {parsed_fsm.transitions[i].input : i \in 1..Len(parsed_fsm.transitions)}

\* Found with the start-state name left out of the filter.
FoundBySymbolOnly(parsed_fsm, input_character, state) ==
    LET Matches(t) == t.input = input_character
    IN SelectSeq(parsed_fsm.transitions, Matches)

\* The declared transitions with this symbol and start-state name, in
\* source order (the filter of lines 160-164).
Found(parsed_fsm, input_character, state) ==
    LET Matches(t) == t.input = input_character /\ t.start_state = get_name(state)
    IN SelectSeq(parsed_fsm.transitions, Matches)

\* The states whose name is end_state_name (the filter of lines 174-181).
ResolveEndState(states, end_state_name) == {s \in states : s.name = end_state_name}

Continue(transitions) == [kind |-> "Continue", transitions |-> transitions]

\* MatchFound with the arm for no match going on to the next pair.
MatchFoundSkipsMissing(found, states, transitions, input_character, state) ==
    IF Len(found) = 0 THEN Continue(transitions)
    ELSE IF Len(found) = 1
         THEN LET end_state_name == found[1].end_state
                  resolved == ResolveEndState(states, end_state_name)
              IN IF resolved # {}
                 THEN Continue(HashSetInsertTransition(transitions, Transition(input_character, state, CHOOSE s \in resolved : TRUE)))
                 ELSE UnknownState(end_state_name)
         ELSE ExtraTransition(found[1], found[2])

\* MatchFound with an unresolved end-state name turned into a plain state
\* instead of an error.
MatchFoundUnresolved(found, states, transitions, input_character, state) ==
    IF Len(found) = 0 THEN MissingTransition(input_character, state)
    ELSE IF Len(found) = 1
         THEN LET end_state_name == found[1].end_state
                  resolved == ResolveEndState(states, end_state_name)
              IN IF resolved # {}
                 THEN Continue(HashSetInsertTransition(transitions, Transition(input_character, state, CHOOSE s \in resolved : TRUE)))
                 ELSE Continue(HashSetInsertTransition(transitions, Transition(input_character, state, State(end_state_name))))
         ELSE ExtraTransition(found[1], found[2])

\* MatchFound with the two declarations of ExtraTransition exchanged.
MatchFoundSwapped(found, states, transitions, input_character, state) ==
    IF Len(found) = 0 THEN MissingTransition(input_character, state)
    ELSE IF Len(found) = 1
         THEN LET end_state_name == found[1].end_state
                  resolved == ResolveEndState(states, end_state_name)
              IN IF resolved # {}
                 THEN Continue(HashSetInsertTransition(transitions, Transition(input_character, state, CHOOSE s \in resolved : TRUE)))
                 ELSE UnknownState(end_state_name)
         ELSE ExtraTransition(found[2], found[1])

\* MatchFound with UnknownState carrying the start-state name of the
\* declaration instead of its end-state name.
MatchFoundNamesStart(found, states, transitions, input_character, state) ==
    IF Len(found) = 0 THEN MissingTransition(input_character, state)
    ELSE IF Len(found) = 1
         THEN LET end_state_name == found[1].end_state
                  resolved == ResolveEndState(states, end_state_name)
              IN IF resolved # {}
                 THEN Continue(HashSetInsertTransition(transitions, Transition(input_character, state, CHOOSE s \in resolved : TRUE)))
                 ELSE UnknownState(found[1].start_state)
         ELSE ExtraTransition(found[1], found[2])

\* match found.len(): an error to return, or the transition set to go on with.
MatchFound(found, states, transitions, input_character, state) ==
    IF Len(found) = 0 THEN MissingTransition(input_character, state)
    ELSE IF Len(found) = 1
         THEN LET end_state_name == found[1].end_state
                  resolved == ResolveEndState(states, end_state_name)
              IN IF resolved # {}
                 THEN Continue(HashSetInsertTransition(transitions, Transition(input_character, state, CHOOSE s \in resolved : TRUE)))
                 ELSE UnknownState(end_state_name)
         ELSE ExtraTransition(found[1], found[2])

\* The nested loops of lines 158-200 over the cross product, the k-th pair
\* being taken from the iteration orders of the two hash sets.
RECURSIVE CrossProductLoop(_, _, _, _, _, _)
CrossProductLoop(parsed_fsm, states, alphabetOrder, statesOrder, k, transitions) ==
    IF k >= Len(alphabetOrder) * Len(statesOrder) THEN Continue(transitions)
    ELSE LET input_character == alphabetOrder[(k \div Len(statesOrder)) + 1]
             state == statesOrder[(k % Len(statesOrder)) + 1]
             step == MatchFound(Found(parsed_fsm, input_character, state), states, transitions, input_character, state)
         IN IF step.kind = "Continue"
            THEN CrossProductLoop(parsed_fsm, states, alphabetOrder, statesOrder, k + 1, step.transitions)
            ELSE step

\* AssembleFSM without the test for a start state: an automaton is
\* assembled around whatever start_state holds.
AssembleFSMUnchecked(start_state, transitions, input_alphabet) ==
    OkFSM(start_state, transitions, input_alphabet)

\* if let Some(start_state) = start_state (lines 202-210).
AssembleFSM(start_state, transitions, input_alphabet) ==
    IF start_state # None THEN OkFSM(start_state, transitions, input_alphabet) ELSE NoStartState

validate_parsed_fsm(parsed_fsm, alphabetOrder, statesOrder) ==
    LET resolved == StatesLoop(parsed_fsm, 1, [states |-> {}, start_state |-> None])
        checked == CrossProductLoop(parsed_fsm, resolved.states, alphabetOrder, statesOrder, 0, {})
    IN IF checked.kind = "Continue"
       THEN AssembleFSM(resolved.start_state, checked.transitions, DeriveAlphabet(parsed_fsm))
       ELSE checked

\* The states set validate_parsed_fsm builds.
ResolvedStates(parsed_fsm) == StatesLoop(parsed_fsm, 1, [states |-> {}, start_state |-> None]).states

(***************************************************************************)
(* fsm.rs: FSM::run, one loop iteration at a time.                         *)
(***************************************************************************)
\* RunStep taking the found transition's start_state as the next state.
RunStepStays(fsm, state, c) ==
    IF c \notin fsm.input_alphabet THEN CharNotInInputAlphabet(c)
    ELSE LET transition_pattern == Transition(c, state, State(<<>>))
             got == HashSetGetTransition(fsm.transitions, transition_pattern)
         IN IF got = {} THEN Panic
            ELSE [kind |-> "Moved", state |-> (CHOOSE t \in got : TRUE).start_state]

\* RunStep without the test of lines 85-87.
RunStepNoAlphabetCheck(fsm, state, c) ==
    LET transition_pattern == Transition(c, state, State(<<>>))
        got == HashSetGetTransition(fsm.transitions, transition_pattern)
    IN IF got = {} THEN Panic
       ELSE [kind |-> "Moved", state |-> (CHOOSE t \in got : TRUE).end_state]

\* The loop body of lines 84-98 for character c: the error to return, or
\* the state to go on with.
RunStep(fsm, state, c) ==
    IF c \notin fsm.input_alphabet THEN CharNotInInputAlphabet(c)
    ELSE LET transition_pattern == Transition(c, state, State(<<>>))
             got == HashSetGetTransition(fsm.transitions, transition_pattern)
         IN IF got = {} THEN Panic
            ELSE [kind |-> "Moved", state |-> (CHOOSE t \in got : TRUE).end_state]

\* Accepts with both arms of the match returning true.
AcceptsAlways(state) == TRUE

\* The final match of lines 99-102.
Accepts(state) == IF state.variant = "State" THEN FALSE ELSE TRUE

(***************************************************************************)
(* The program: a parsed specification is validated (possibly again), and  *)
(* the validated FSM is run on input strings.                              *)
(***************************************************************************)
VARIABLES parsed_fsm, validated, earlier, pc, input, pos, current_state, visited, returned

\* What the other specifications of this module add: a call of run that has
\* returned and is kept for comparison, a second call of run on the FSM,
\* and a source text with what it was written from and what it parses to.
VARIABLES remembered, second, text, written, parsed

vars == <<parsed_fsm, validated, earlier, pc, input, pos, current_state, visited, returned, remembered, second, text, written, parsed>>

otherVars == <<remembered, second, text, written, parsed>>

runVars == <<pc, input, pos, current_state, visited, returned>>

Inputs == SeqsUpTo(InputChars, MaxInput)

Init ==
    /\ parsed_fsm \in ParsedFSM
    /\ validated = None
    /\ earlier = None
    /\ pc = "idle"
    /\ input = <<>>
    /\ pos = 0
    /\ current_state = None
    /\ visited = <<>>
    /\ returned = None
    /\ remembered = None
    /\ second = None
    /\ text = <<>>
    /\ written = None
    /\ parsed = None

\* validate_parsed_fsm(parsed_fsm): the two hash sets are iterated in some
\* order, which the hasher's random keys choose anew on every call.
Validate ==
    /\ pc = "idle"
    /\ validated = None
    /\ \E alphabetOrder \in Orders(DeriveAlphabet(parsed_fsm)), statesOrder \in Orders(ResolvedStates(parsed_fsm)) :
          validated' = validate_parsed_fsm(parsed_fsm, alphabetOrder, statesOrder)
    /\ UNCHANGED <<parsed_fsm, earlier, runVars>>
    /\ UNCHANGED otherVars

\* The same source text is parsed and validated a second time: earlier
\* keeps the result of the first call.
ValidateAgain ==
    /\ pc = "idle"
    /\ validated # None
    /\ earlier = None
    /\ \E alphabetOrder \in Orders(DeriveAlphabet(parsed_fsm)), statesOrder \in Orders(ResolvedStates(parsed_fsm)) :
          validated' = validate_parsed_fsm(parsed_fsm, alphabetOrder, statesOrder)
    /\ earlier' = validated
    /\ UNCHANGED <<parsed_fsm, runVars>>
    /\ UNCHANGED otherVars

\* fsm.run(i) is called: let mut current_state = self.start_state.to_owned().
RunStart ==
    /\ pc = "idle"
    /\ validated.kind = "Ok"
    /\ \E i \in Inputs : input' = i
    /\ pos' = 0
    /\ current_state' = validated.fsm.start_state
    /\ visited' = <<validated.fsm.start_state>>
    /\ returned' = None
    /\ pc' = "running"
    /\ UNCHANGED <<parsed_fsm, validated, earlier>>
    /\ UNCHANGED otherVars

\* RunChar with the run keeping its position in the FSM itself: the state
\* moved to is stored as the FSM's start_state.
RunCharKeepsState ==
    /\ pc = "running"
    /\ pos < Len(input)
    /\ LET step == RunStep(validated.fsm, current_state, input[pos + 1])
       IN IF step.kind = "Moved"
          THEN /\ current_state' = step.state
               /\ visited' = Append(visited, step.state)
               /\ pos' = pos + 1
               /\ validated' = [validated EXCEPT !.fsm.start_state = step.state]
               /\ UNCHANGED <<pc, returned>>
          ELSE /\ returned' = step
               /\ pc' = "done"
               /\ UNCHANGED <<current_state, visited, pos, validated>>
    /\ UNCHANGED <<parsed_fsm, earlier, input>>
    /\ UNCHANGED otherVars

\* One iteration of for c in input.chars().
RunChar ==
    /\ pc = "running"
    /\ pos < Len(input)
    /\ LET step == RunStep(validated.fsm, current_state, input[pos + 1])
       IN IF step.kind = "Moved"
          THEN /\ current_state' = step.state
               /\ visited' = Append(visited, step.state)
               /\ pos' = pos + 1
               /\ UNCHANGED <<pc, returned>>
          ELSE /\ returned' = step
               /\ pc' = "done"
               /\ UNCHANGED <<current_state, visited, pos>>
    /\ UNCHANGED <<parsed_fsm, validated, earlier, input>>
    /\ UNCHANGED otherVars

\* The input is exhausted: Ok(match current_state { .. }).
RunReturn ==
    /\ pc = "running"
    /\ pos = Len(input)
    /\ returned' = OkBool(Accepts(current_state))
    /\ pc' = "done"
    /\ UNCHANGED <<parsed_fsm, validated, earlier, input, pos, current_state, visited>>
    /\ UNCHANGED otherVars

\* The caller has taken the result of the run: the FSM, which the run only
\* borrowed, is there for the next call of run.
RunDone ==
    /\ pc = "done"
    /\ pc' = "idle"
    /\ input' = <<>>
    /\ pos' = 0
    /\ current_state' = None
    /\ visited' = <<>>
    /\ returned' = None
    /\ UNCHANGED <<parsed_fsm, validated, earlier>>
    /\ UNCHANGED otherVars

Next == Validate \/ RunStart \/ RunChar \/ RunReturn \/ RunDone

Spec == Init /\ [][Next]_vars

\* The validator alone, called twice on the same parsed specification.
NextTwice == Validate \/ ValidateAgain

SpecTwice == Init /\ [][NextTwice]_vars

(***************************************************************************)
(* Repeated runs: the caller of run keeps the input and the result of a   *)
(* call that has returned, with the FSM as it was then, and goes on        *)
(* calling run on the same FSM.                                            *)
(***************************************************************************)
RunDoneRemembered ==
    /\ pc = "done"
    /\ remembered' = [input |-> input, returned |-> returned, fsm |-> validated.fsm]
    /\ pc' = "idle"
    /\ input' = <<>>
    /\ pos' = 0
    /\ current_state' = None
    /\ visited' = <<>>
    /\ returned' = None
    /\ UNCHANGED <<parsed_fsm, validated, earlier, second, text, written, parsed>>

NextRepeat == Validate \/ RunStart \/ RunChar \/ RunReturn \/ RunDone \/ RunDoneRemembered

SpecRepeat == Init /\ [][NextRepeat]_vars

(***************************************************************************)
(* Concurrent runs: a second call of run on the same FSM, whose loop       *)
(* iterations interleave with those of the first call.  Each call has its  *)
(* own input and its own local current_state; both borrow the FSM.         *)
(***************************************************************************)
\* FSM::run as a whole, from state on, over the characters i.. of word w.
RECURSIVE run(_, _, _, _)
run(fsm, state, w, i) ==
    IF i > Len(w) THEN OkBool(Accepts(state))
    ELSE LET step == RunStep(fsm, state, w[i])
         IN IF step.kind = "Moved" THEN run(fsm, step.state, w, i + 1) ELSE step

\* The source texts the concurrent runs are made on: no state name is
\* declared twice, and no transition line is written twice in a row at the
\* end of the block.
InitConcurrent ==
    /\ Init
    /\ \A i, j \in 1..Len(parsed_fsm.states) : parsed_fsm.states[i].name = parsed_fsm.states[j].name => i = j
    /\ parsed_fsm.transitions \in SeqsUpTo(ParsedTransition, MaxTrans)

SecondStart ==
    /\ validated.kind = "Ok"
    /\ second = None
    /\ \E i \in Inputs :
          second' = [pc |-> "running", input |-> i, pos |-> 0, current_state |-> validated.fsm.start_state, returned |-> None]
    /\ UNCHANGED <<parsed_fsm, validated, earlier, runVars, remembered, text, written, parsed>>

\* SecondChar with current_state being one cell both calls write to.
SecondCharShared ==
    /\ second # None
    /\ second.pc = "running"
    /\ second.pos < Len(second.input)
    /\ LET step == RunStep(validated.fsm, second.current_state, second.input[second.pos + 1])
       IN IF step.kind = "Moved"
          THEN /\ second' = [second EXCEPT !.current_state = step.state, !.pos = second.pos + 1]
               /\ current_state' = IF pc = "running" THEN step.state ELSE current_state
          ELSE /\ second' = [second EXCEPT !.returned = step, !.pc = "done"]
               /\ UNCHANGED current_state
    /\ UNCHANGED <<parsed_fsm, validated, earlier, pc, input, pos, visited, returned, remembered, text, written, parsed>>

SecondChar ==
    /\ second # None
    /\ second.pc = "running"
    /\ second.pos < Len(second.input)
    /\ LET step == RunStep(validated.fsm, second.current_state, second.input[second.pos + 1])
       IN IF step.kind = "Moved"
          THEN second' = [second EXCEPT !.current_state = step.state, !.pos = second.pos + 1]
          ELSE second' = [second EXCEPT !.returned = step, !.pc = "done"]
    /\ UNCHANGED <<parsed_fsm, validated, earlier, runVars, remembered, text, written, parsed>>

SecondReturn ==
    /\ second # None
    /\ second.pc = "running"
    /\ second.pos = Len(second.input)
    /\ second' = [second EXCEPT !.returned = OkBool(Accepts(second.current_state)), !.pc = "done"]
    /\ UNCHANGED <<parsed_fsm, validated, earlier, runVars, remembered, text, written, parsed>>

NextConcurrent == Validate \/ RunStart \/ RunChar \/ RunReturn \/ SecondStart \/ SecondChar \/ SecondReturn

SpecConcurrent == InitConcurrent /\ [][NextConcurrent]_vars

(***************************************************************************)
(* The sample specification: plain states A and B, accepting state C, six  *)
(* transitions over 0 and 1, start A.                                      *)
(***************************************************************************)
SampleFSM ==
    [start_state |-> <<"A">>,
     states |-> <<[variant |-> "State", name |-> <<"A">>], [variant |-> "State", name |-> <<"B">>], [variant |-> "AcceptState", name |-> <<"C">>]>>,
     transitions |-> <<[input |-> "0", start_state |-> <<"A">>, end_state |-> <<"B">>],
                       [input |-> "0", start_state |-> <<"B">>, end_state |-> <<"C">>],
                       [input |-> "0", start_state |-> <<"C">>, end_state |-> <<"A">>],
                       [input |-> "1", start_state |-> <<"B">>, end_state |-> <<"A">>],
                       [input |-> "1", start_state |-> <<"C">>, end_state |-> <<"B">>],
                       [input |-> "1", start_state |-> <<"A">>, end_state |-> <<"C">>]>>]

SampleInputs == SeqsUpTo(InputChars, MaxSampleInput)

InitSample ==
    /\ parsed_fsm = SampleFSM
    /\ validated = None
    /\ earlier = None
    /\ pc = "idle"
    /\ input = <<>>
    /\ pos = 0
    /\ current_state = None
    /\ visited = <<>>
    /\ returned = None
    /\ remembered = None
    /\ second = None
    /\ text = <<>>
    /\ written = None
    /\ parsed = None

RunStartSample ==
    /\ pc = "idle"
    /\ validated.kind = "Ok"
    /\ \E i \in SampleInputs : input' = i
    /\ pos' = 0
    /\ current_state' = validated.fsm.start_state
    /\ visited' = <<validated.fsm.start_state>>
    /\ returned' = None
    /\ pc' = "running"
    /\ UNCHANGED <<parsed_fsm, validated, earlier>>
    /\ UNCHANGED otherVars

NextSample == Validate \/ RunStartSample \/ RunChar \/ RunReturn \/ RunDone

SpecSample == InitSample /\ [][NextSample]_vars

(***************************************************************************)
(* fsm_parser.rs: the grammar parser.  A text is a sequence of characters  *)
(* and a parser reads it from a position p: it fails, or succeeds with the *)
(* position after what it consumed and a value.                            *)
(***************************************************************************)
Tab == "\t"

Newline == "\n"

\* is_a("\r\n\0"), is_a(" \t"), is_not(" \t\r\n:") and none_of(" \t\r\n:").
LineChars == {"\r", "\n", "NUL"}

BlankChars == {" ", "\t"}

NameStop == {" ", "\t", "\r", "\n", ":"}

Fail == [ok |-> FALSE]

Done(p, value) == [ok |-> TRUE, pos |-> p, value |-> value]

\* The position after the longest run from p of characters in (not in) set.
RECURSIVE SkipWhile(_, _, _)
SkipWhile(i, p, set) == IF p <= Len(i) /\ i[p] \in set THEN SkipWhile(i, p + 1, set) ELSE p

RECURSIVE SkipUntil(_, _, _)
SkipUntil(i, p, set) == IF p <= Len(i) /\ i[p] \notin set THEN SkipUntil(i, p + 1, set) ELSE p

tag(i, p, t) == IF p + Len(t) - 1 <= Len(i) /\ SubSeq(i, p, p + Len(t) - 1) = t THEN Done(p + Len(t), t) ELSE Fail

char(i, p, c) == IF p <= Len(i) /\ i[p] = c THEN Done(p + 1, c) ELSE Fail

line_parser(i, p) == Done(SkipWhile(i, p, LineChars), <<>>)

blank_space_parser(i, p) == Done(SkipWhile(i, p, BlankChars), <<>>)

state_name_parser(i, p) ==
    LET q == SkipUntil(i, p, NameStop)
    IN IF q = p THEN Fail ELSE Done(q, SubSeq(i, p, q - 1))

state_parser(i, p) ==
    LET tab == char(i, p, Tab)
        final == IF tab.ok THEN tag(i, tab.pos, <<"f", "i", "n", "a", "l", ":">>) ELSE Fail
    IN IF final.ok
       THEN LET name == state_name_parser(i, blank_space_parser(i, final.pos).pos)
            IN IF name.ok
               THEN Done(line_parser(i, name.pos).pos, [variant |-> "AcceptState", name |-> name.value])
               ELSE Fail
       ELSE IF tab.ok
            THEN LET name == state_name_parser(i, tab.pos)
                 IN IF name.ok
                    THEN Done(line_parser(i, name.pos).pos, [variant |-> "State", name |-> name.value])
                    ELSE Fail
            ELSE Fail

\* many0(state_parser).
RECURSIVE many0_state_parser(_, _, _)
many0_state_parser(i, p, acc) ==
    LET r == state_parser(i, p)
    IN IF r.ok THEN many0_state_parser(i, r.pos, Append(acc, r.value)) ELSE Done(p, acc)

state_block_parser(i, p) ==
    LET header == tag(i, line_parser(i, p).pos, <<"s", "t", "a", "t", "e", "s", ":">>)
    IN IF header.ok THEN many0_state_parser(i, line_parser(i, header.pos).pos, <<>>) ELSE Fail

input_char_parser(i, p) ==
    LET q == blank_space_parser(i, p).pos
    IN IF q <= Len(i) /\ i[q] \notin NameStop
       THEN LET colon == char(i, q + 1, ":")
            IN IF colon.ok THEN Done(blank_space_parser(i, colon.pos).pos, i[q]) ELSE Fail
       ELSE Fail

transition_parser(i, p) ==
    LET symbol == input_char_parser(i, p)
    IN IF ~symbol.ok THEN Fail
       ELSE LET start_state == state_name_parser(i, symbol.pos)
            IN IF ~start_state.ok THEN Fail
               ELSE LET arrow == tag(i, blank_space_parser(i, start_state.pos).pos, <<"-", ">">>)
                    IN IF ~arrow.ok THEN Fail
                       ELSE LET end_state == state_name_parser(i, blank_space_parser(i, arrow.pos).pos)
                            IN IF ~end_state.ok THEN Fail
                               ELSE Done(line_parser(i, end_state.pos).pos,
                                         [input |-> symbol.value, start_state |-> start_state.value, end_state |-> end_state.value])

\* many0(transition_parser), the loop many1 is made of.
RECURSIVE many0_transition_parser(_, _, _)
many0_transition_parser(i, p, acc) ==
    LET r == transition_parser(i, p)
    IN IF r.ok THEN many0_transition_parser(i, r.pos, Append(acc, r.value)) ELSE Done(p, acc)

\* many1(transition_parser): an error when the first application fails.
many1_transition_parser(i, p) ==
    LET r == many0_transition_parser(i, p, <<>>)
    IN IF r.value = <<>> THEN Fail ELSE r

\* transitions_block_parser with many0 in the place of many1.
transitions_block_parser_many0(i, p) ==
    LET header == tag(i, line_parser(i, p).pos, <<"t", "r", "a", "n", "s", "i", "t", "i", "o", "n", "s", ":">>)
    IN IF header.ok THEN many0_transition_parser(i, line_parser(i, header.pos).pos, <<>>) ELSE Fail

transitions_block_parser(i, p) ==
    LET header == tag(i, line_parser(i, p).pos, <<"t", "r", "a", "n", "s", "i", "t", "i", "o", "n", "s", ":">>)
    IN IF header.ok THEN many1_transition_parser(i, line_parser(i, header.pos).pos) ELSE Fail

start_block_parser(i, p) ==
    LET header == tag(i, line_parser(i, p).pos, <<"s", "t", "a", "r", "t", ":">>)
    IN IF header.ok THEN state_name_parser(i, blank_space_parser(i, header.pos).pos) ELSE Fail

\* permutation with the three parsers applied once each in the order they
\* are listed in.
RECURSIVE permutation_in_order(_, _, _)
permutation_in_order(i, p, got) ==
    LET start == start_block_parser(i, p)
    IN IF ~start.ok THEN Fail
       ELSE LET states == state_block_parser(i, start.pos)
            IN IF ~states.ok THEN Fail
               ELSE LET transitions == transitions_block_parser(i, states.pos)
                    IN IF ~transitions.ok THEN Fail
                       ELSE Done(transitions.pos, [start_state |-> start.value, states |-> states.value, transitions |-> transitions.value])

\* permutation((start_block_parser, state_block_parser,
\* transitions_block_parser)): at each position the parsers that have not
\* succeeded yet are tried in the order they are listed in, the first to
\* succeed consumes, and the permutation fails when none of them does.
RECURSIVE permutation(_, _, _)
permutation(i, p, got) ==
    IF DOMAIN got = {"start_state", "states", "transitions"} THEN Done(p, got)
    ELSE LET start == IF "start_state" \in DOMAIN got THEN Fail ELSE start_block_parser(i, p)
             states == IF "states" \in DOMAIN got THEN Fail ELSE state_block_parser(i, p)
             transitions == IF "transitions" \in DOMAIN got THEN Fail ELSE transitions_block_parser(i, p)
         IN IF start.ok THEN permutation(i, start.pos, got @@ [x \in {"start_state"} |-> start.value])
            ELSE IF states.ok THEN permutation(i, states.pos, got @@ [x \in {"states"} |-> states.value])
            ELSE IF transitions.ok THEN permutation(i, transitions.pos, got @@ [x \in {"transitions"} |-> transitions.value])
            ELSE Fail

ParseError == [kind |-> "ParseError"]

OkParsed(rest, fsm) == [kind |-> "Ok", rest |-> rest, fsm |-> fsm]

definition_parser(i) ==
    LET r == permutation(i, 1, <<>>)
    IN IF r.ok THEN OkParsed(SubSeq(i, r.pos, Len(i)), r.value) ELSE ParseError

\* ParsedFSM::parse.
parse(i) == definition_parser(i)

(***************************************************************************)
(* Source texts: the three blocks written in one of their six orders, in   *)
(* the layout of the sample text, then parsed and, when the parse          *)
(* succeeds, validated.                                                    *)
(***************************************************************************)
BlockNames == {"start", "states", "transitions"}

\* The transition lines the texts are written from: two lines that differ
\* in their symbol, their start state and their end state.
WrittenTransitions == {Transition("0", <<"A">>, <<"0">>), Transition("1", <<"0">>, <<"A">>)}

\* What a text is written from; a transitions block may have no line here.
Written == [start_state : Names, states : SeqsUpTo(ParsedState, MaxStates), transitions : SeqsUpTo(WrittenTransitions, MaxTrans), order : Orders(BlockNames)]

RECURSIVE Concat(_)
Concat(ss) == IF ss = <<>> THEN <<>> ELSE Head(ss) \o Concat(Tail(ss))

StateLine(s) ==
    <<Tab>> \o (IF s.variant = "AcceptState" THEN <<"f", "i", "n", "a", "l", ":", " ">> ELSE <<>>) \o s.name \o <<Newline>>

TransitionLine(t) ==
    <<Tab, t.input, ":", " ">> \o t.start_state \o <<" ", "-", ">", " ">> \o t.end_state \o <<Newline>>

RenderBlock(w, b) ==
    CASE b = "start" -> <<"s", "t", "a", "r", "t", ":", " ">> \o w.start_state \o <<Newline>>
      [] b = "states" -> <<"s", "t", "a", "t", "e", "s", ":", Newline>> \o Concat([k \in 1..Len(w.states) |-> StateLine(w.states[k])])
      [] b = "transitions" -> <<"t", "r", "a", "n", "s", "i", "t", "i", "o", "n", "s", ":", Newline>> \o Concat([k \in 1..Len(w.transitions) |-> TransitionLine(w.transitions[k])])

\* The blocks in the order w.order, a blank line between two blocks.
Render(w) == RenderBlock(w, w.order[1]) \o <<Newline>> \o RenderBlock(w, w.order[2]) \o <<Newline>> \o RenderBlock(w, w.order[3])

InitParse ==
    /\ written \in Written
    /\ text = Render(written)
    /\ parsed = None
    /\ parsed_fsm = None
    /\ validated = None
    /\ earlier = None
    /\ pc = "idle"
    /\ input = <<>>
    /\ pos = 0
    /\ current_state = None
    /\ visited = <<>>
    /\ returned = None
    /\ remembered = None
    /\ second = None

\* let (_, parsed_fsm) = ParsedFSM::parse(text)?;
Parse ==
    /\ parsed = None
    /\ parsed' = parse(text)
    /\ parsed_fsm' = IF parsed'.kind = "Ok" THEN parsed'.fsm ELSE parsed_fsm
    /\ UNCHANGED <<validated, earlier, runVars, remembered, second, text, written>>

\* validate_parsed_fsm(parsed_fsm), reached when the parse returned Ok.
ValidateParsed ==
    /\ parsed_fsm # None
    /\ Validate

NextParse == Parse \/ ValidateParsed

SpecParse == InitParse /\ [][NextParse]_vars

(***************************************************************************)
(* Vocabulary of the properties, read off the parsed specification.        *)
(***************************************************************************)
\* The names of the declared states.
DeclaredNames == {parsed_fsm.states[i].name : i \in 1..Len(parsed_fsm.states)}

\* The symbols appearing in the declared transitions.
DeclaredSymbols == {c \in Chars : \E i \in 1..Len(parsed_fsm.transitions) : parsed_fsm.transitions[i].input = c}

\* The positions of the declared transitions with symbol c and start-state name n.
DeclaredFor(c, n) == {i \in 1..Len(parsed_fsm.transitions) : parsed_fsm.transitions[i].input = c /\ parsed_fsm.transitions[i].start_state = n}

\* The tag the first declaration of name n carries: the one the states set keeps.
FirstDeclared(n) == parsed_fsm.states[CHOOSE i \in 1..Len(parsed_fsm.states) : parsed_fsm.states[i].name = n /\ \A j \in 1..(i - 1) : parsed_fsm.states[j].name # n]

\* The state reached from state s by following, for the characters i.. of
\* word w, the declared transition for (character, current state).
RECURSIVE Follow(_, _, _)
Follow(s, w, i) ==
    IF i > Len(w) THEN s
    ELSE LET t == parsed_fsm.transitions[CHOOSE k \in DeclaredFor(w[i], s.name) : TRUE]
         IN Follow(FirstDeclared(t.end_state), w, i + 1)

\* The position of the first character of the input outside the alphabet
\* (Len(input) + 1 when there is none).
FirstOutside(alphabet) == CHOOSE k \in 1..(Len(input) + 1) : (k = Len(input) + 1 \/ input[k] \notin alphabet) /\ \A j \in 1..(k - 1) : input[j] \in alphabet

Automaton == validated.fsm

\* C1: a finished run over a word of the alphabet returns Ok(true) exactly
\* when following the declared transitions from the start identity, one per
\* character in input order, ends in an accepting state, and Ok(false)
\* otherwise; on the empty word it returns the start identity's tag.
RunFollowsDeclaredTransitions ==
    (pc = "done" /\ \A k \in 1..Len(input) : input[k] \in Automaton.input_alphabet)
        => /\ returned = OkBool(Follow(Automaton.start_state, input, 1).variant = "AcceptState")
           /\ (input = <<>> => returned = OkBool(Automaton.start_state.variant = "AcceptState"))

RunFollowsDeclaredTransitionsWitness ==
    /\ pc = "done"
    /\ Len(input) >= 2
    /\ returned = OkBool(TRUE)
    /\ Automaton.start_state.variant = "State"

\* C2: a returned automaton holds exactly one transition entry for every
\* declared state name and every symbol of its alphabet, and no other
\* entry: |alphabet| x |distinct state names| entries in all.
Totality ==
    validated.kind = "Ok"
        => /\ \A n \in DeclaredNames, c \in Automaton.input_alphabet :
                Cardinality({t \in Automaton.transitions : t.input = c /\ t.start_state.name = n}) = 1
           /\ Cardinality(Automaton.transitions) = Cardinality(Automaton.input_alphabet) * Cardinality(DeclaredNames)

TotalityWitness ==
    /\ validated.kind = "Ok"
    /\ Cardinality(DeclaredNames) = 2
    /\ Cardinality(Automaton.transitions) >= 2

\* C3: the transition lookup of a run never fails: the start identity, every
\* entry's end identity and every state a run visits is a declared state
\* with an entry for every symbol of the alphabet.
HasAllEntries(s) == s.name \in DeclaredNames /\ \A c \in Automaton.input_alphabet : \E t \in Automaton.transitions : t.input = c /\ t.start_state.name = s.name

LookupNeverFails ==
    /\ returned # Panic
    /\ validated.kind = "Ok"
          => /\ HasAllEntries(Automaton.start_state)
             /\ \A t \in Automaton.transitions : HasAllEntries(t.end_state)
             /\ \A k \in 1..Len(visited) : HasAllEntries(visited[k])

LookupNeverFailsWitness ==
    /\ pc = "done"
    /\ returned.kind = "Ok"
    /\ Len(visited) >= 3
    /\ visited[2].name # visited[1].name

\* C4: a run over an input with a character outside the alphabet returns
\* CharNotInInputAlphabet of the first such character, having taken one
\* transition for each character before it and none from there on.
StopsAtFirstForeignChar ==
    (pc # "idle" /\ FirstOutside(Automaton.input_alphabet) <= Len(input))
        => LET first == FirstOutside(Automaton.input_alphabet)
           IN /\ pos < first
              /\ Len(visited) = pos + 1
              /\ pc = "done" => /\ returned = CharNotInInputAlphabet(input[first])
                                /\ pos = first - 1

StopsAtFirstForeignCharWitness ==
    /\ pc = "done"
    /\ returned.kind = "CharNotInInputAlphabet"
    /\ pos = 1
    /\ Len(input) = 2

\* C5: the alphabet of a returned automaton is exactly the set of symbols of
\* the declared transitions, and a run fails with CharNotInInputAlphabet on
\* an input holding a character of no declared transition, also when that
\* character occurs in a state name.
AlphabetIsDerived ==
    validated.kind = "Ok"
        => /\ Automaton.input_alphabet = DeclaredSymbols
           /\ (pc = "done" /\ \E k \in 1..Len(input) : input[k] \notin DeclaredSymbols)
                 => returned.kind = "CharNotInInputAlphabet"

AlphabetIsDerivedWitness ==
    /\ pc = "done"
    /\ returned.kind = "CharNotInInputAlphabet"
    /\ \E n \in DeclaredNames : \E k \in 1..Len(n) : n[k] = returned.c

(***************************************************************************)
(* Violations a parsed specification holds.                                *)
(***************************************************************************)
\* Some pair of the cross product has no declared transition.
HasMissingPair == \E c \in DeclaredSymbols, n \in DeclaredNames : DeclaredFor(c, n) = {}

\* Some pair of the cross product has two or more declared transitions.
HasExtraPair == \E c \in DeclaredSymbols, n \in DeclaredNames : Cardinality(DeclaredFor(c, n)) >= 2

\* Some pair of the cross product has one declared transition, whose
\* end-state name is the name of no declared state.
HasUnknownPair == \E c \in DeclaredSymbols, n \in DeclaredNames : \E i \in DeclaredFor(c, n) : DeclaredFor(c, n) = {i} /\ parsed_fsm.transitions[i].end_state \notin DeclaredNames

\* C6, as claimed: a specification with a pair of a derived symbol and a
\* declared state that has no declared transition fails with
\* MissingTransition.
MissingCoverageFailsWithMissingTransition ==
    (validated # None /\ HasMissingPair) => validated.kind = "MissingTransition"

\* C6, amended: a specification with a pair of a derived symbol and a
\* declared state that has no declared transition never yields an
\* automaton: it fails with MissingTransition, or with ExtraTransition or
\* UnknownState when it also holds a pair with that violation.
MissingCoverageFails ==
    (validated # None /\ HasMissingPair)
        => \/ validated.kind = "MissingTransition"
           \/ validated.kind = "ExtraTransition" /\ HasExtraPair
           \/ validated.kind = "UnknownState" /\ HasUnknownPair

MissingCoverageFailsWitness ==
    /\ HasMissingPair
    /\ ~HasExtraPair
    /\ ~HasUnknownPair
    /\ validated.kind = "MissingTransition"
    /\ Cardinality(DeclaredNames) = 2

\* C7: a specification in which some (symbol, start-state name) pair is the
\* key of two or more declared transitions fails with ExtraTransition.
DuplicateKeyFailsWithExtraTransition ==
    (validated # None /\ \E c \in Chars, n \in Names : Cardinality(DeclaredFor(c, n)) >= 2)
        => validated.kind = "ExtraTransition"

\* C8: a specification whose start-state name is the name of no declared
\* state fails with NoStartState.
UnknownStartFailsWithNoStartState ==
    (validated # None /\ parsed_fsm.start_state \notin DeclaredNames)
        => validated.kind = "NoStartState"

\* C9: a specification with a declared transition whose end-state name is
\* the name of no declared state fails with UnknownState.
UnknownTargetFailsWithUnknownState ==
    (validated # None /\ \E i \in 1..Len(parsed_fsm.transitions) : parsed_fsm.transitions[i].end_state \notin DeclaredNames)
        => validated.kind = "UnknownState"

\* C10: validating the same parsed specification twice gives the same
\* result both times: the same error variant with the same payload.
ErrorSelectionIsDeterministic ==
    earlier # None => earlier = validated

\* C11: a run leaves the automaton as it was, and a call of run returns
\* what an earlier call with the same input returned, whatever calls were
\* made in between.
RunIsIdempotent ==
    remembered # None
        => /\ remembered.fsm = validated.fsm
           /\ (pc = "done" /\ input = remembered.input) => returned = remembered.returned

RunIsIdempotentWitness ==
    /\ pc = "done"
    /\ remembered # None
    /\ input = remembered.input
    /\ Len(input) = 2
    /\ returned.kind = "Ok"
    /\ visited[2].name # visited[1].name

\* C12: of two calls of run on one FSM whose steps interleave, each
\* returns what the same call returns when it runs alone.
RunsDoNotInterfere ==
    /\ pc = "done" => returned = run(Automaton, Automaton.start_state, input, 1)
    /\ (second # None /\ second.pc = "done") => second.returned = run(Automaton, Automaton.start_state, second.input, 1)

\* Both calls are in the middle of their inputs, in different states.
RunsDoNotInterfereWitness ==
    /\ pc = "running"
    /\ pos = 1
    /\ second # None
    /\ second.pc = "running"
    /\ second.pos = 2
    /\ current_state.name # second.current_state.name

\* The names of the states a run has visited, in order.
VisitedNames == [k \in 1..Len(visited) |-> visited[k].name]

\* C13: the sample specification validates, and run("0011") visits
\* A,B,C,B,A and returns false, run("000") visits A,B,C,A and returns false,
\* and run("00") visits A,B,C and returns true.
SampleRuns ==
    /\ validated # None => validated.kind = "Ok"
    /\ (pc = "done" /\ input = <<"0", "0", "1", "1">>)
          => /\ VisitedNames = << <<"A">>, <<"B">>, <<"C">>, <<"B">>, <<"A">> >>
             /\ returned = OkBool(FALSE)
    /\ (pc = "done" /\ input = <<"0", "0", "0">>)
          => /\ VisitedNames = << <<"A">>, <<"B">>, <<"C">>, <<"A">> >>
             /\ returned = OkBool(FALSE)
    /\ (pc = "done" /\ input = <<"0", "0">>)
          => /\ VisitedNames = << <<"A">>, <<"B">>, <<"C">> >>
             /\ returned = OkBool(TRUE)

SampleRunsWitness ==
    /\ parsed_fsm = SampleFSM
    /\ pc = "done"
    /\ input = <<"0", "0", "1", "1">>
    /\ returned.kind = "Ok"


\* C14: a text with at least one transition line is accepted in each of the
\* six orders of its blocks, and what the parser returns is what the text
\* was written from (the start-state name, the states in their order, the
\* transitions in their order), hence the same for all six orders.
ParseAcceptsEveryBlockOrder ==
    (parsed # None /\ written.transitions # <<>>)
        => /\ parsed.kind = "Ok"
           /\ parsed.fsm = [start_state |-> written.start_state, states |-> written.states, transitions |-> written.transitions]

ParseAcceptsEveryBlockOrderWitness ==
    /\ parsed # None /\ parsed.kind = "Ok"
    /\ written.order = <<"transitions", "start", "states">>
    /\ Len(written.states) = 2 /\ written.states[1].variant # written.states[2].variant
    /\ Len(written.transitions) = 2 /\ written.transitions[1] # written.transitions[2]

\* C15: a text whose transitions block has no transition line is rejected
\* with a parse error in every order of the blocks and is never validated;
\* a text whose states block is empty is accepted.
EmptyTransitionsBlockIsParseError ==
    /\ written.transitions = <<>>
           => /\ validated = None
              /\ parsed # None => parsed.kind = "ParseError"
    /\ (written.states = <<>> /\ written.transitions # <<>> /\ parsed # None)
           => parsed.kind = "Ok" /\ parsed.fsm.states = <<>>

EmptyTransitionsBlockIsParseErrorWitness ==
    /\ parsed # None /\ parsed.kind = "ParseError"
    /\ written.transitions = <<>>
    /\ written.order = <<"states", "transitions", "start">>
    /\ written.states # <<>>


\* The start-state name is declared and every pair of a symbol of the
\* derived alphabet and a declared state name has exactly one declared
\* transition, whose end-state name is declared.
WellFormed ==
    /\ parsed_fsm.start_state \in DeclaredNames
    /\ \A c \in DeclaredSymbols, n \in DeclaredNames :
          \E i \in DeclaredFor(c, n) : DeclaredFor(c, n) = {i} /\ parsed_fsm.transitions[i].end_state \in DeclaredNames

\* C16: validate_parsed_fsm returns an automaton exactly when the parsed
\* specification is well formed, and in every other case one of
\* NoStartState, UnknownState, MissingTransition, ExtraTransition.
ValidatesIffWellFormed ==
    validated # None
        => /\ validated.kind = "Ok" <=> WellFormed
           /\ validated.kind # "Ok" => validated.kind \in {"NoStartState", "UnknownState", "MissingTransition", "ExtraTransition"}

ValidatesIffWellFormedWitness ==
    /\ validated.kind = "Ok"
    /\ Cardinality(DeclaredNames) = 2
    /\ \E i \in 1..Len(parsed_fsm.transitions) : parsed_fsm.transitions[i].end_state # parsed_fsm.transitions[i].start_state

\* C17: the declarations an ExtraTransition carries are the first and the
\* second declared transition, in source order, of one (symbol, start-state
\* name) key: two positions i < j of the transitions block with the same
\* symbol and start-state name and no other position of that key before j.
ExtraTransitionCarriesFirstTwo ==
    validated.kind = "ExtraTransition"
        => \E i, j \in 1..Len(parsed_fsm.transitions) :
              /\ i < j
              /\ validated.a = parsed_fsm.transitions[i]
              /\ validated.b = parsed_fsm.transitions[j]
              /\ validated.a.input = validated.b.input
              /\ validated.a.start_state = validated.b.start_state
              /\ \A k \in DeclaredFor(validated.a.input, validated.a.start_state) : k = i \/ k >= j

ExtraTransitionCarriesFirstTwoWitness ==
    /\ validated.kind = "ExtraTransition"
    /\ validated.a # validated.b

\* C18: in a returned automaton the start identity carries the same
\* accepting tag as every transition entry's end identity of the same name.
AcceptanceIsByNameAlone ==
    validated.kind = "Ok"
        => \A t \in Automaton.transitions :
              t.end_state.name = Automaton.start_state.name => t.end_state.variant = Automaton.start_state.variant

\* C19: when validation succeeds every declared transition has a declared
\* start state and exactly one transition entry with its symbol, start name
\* and end name, and there are as many entries as declared transitions.
NoDeclaredTransitionDropped ==
    validated.kind = "Ok"
        => /\ \A i \in 1..Len(parsed_fsm.transitions) :
                /\ parsed_fsm.transitions[i].start_state \in DeclaredNames
                /\ Cardinality({t \in Automaton.transitions :
                                   /\ t.input = parsed_fsm.transitions[i].input
                                   /\ t.start_state.name = parsed_fsm.transitions[i].start_state
                                   /\ t.end_state.name = parsed_fsm.transitions[i].end_state}) = 1
           /\ Cardinality(Automaton.transitions) = Len(parsed_fsm.transitions)

\* C20: MissingTransition(c, S) is returned only when c is in the derived
\* alphabet, S is a declared state and no declared transition has symbol c
\* and start-state name S; UnknownState(n) only when n is the end-state
\* name of a declared transition and the name of no declared state.
ErrorPayloadNamesViolation ==
    /\ validated.kind = "MissingTransition"
          => /\ validated.c \in DeclaredSymbols
             /\ validated.state.name \in DeclaredNames
             /\ validated.state \in ResolvedStates(parsed_fsm)
             /\ DeclaredFor(validated.c, validated.state.name) = {}
    /\ validated.kind = "UnknownState"
          => /\ \E i \in 1..Len(parsed_fsm.transitions) : parsed_fsm.transitions[i].end_state = validated.name
             /\ validated.name \notin DeclaredNames

ErrorPayloadNamesViolationWitness ==
    /\ validated.kind = "UnknownState"
    /\ Cardinality(DeclaredNames) = 1
    /\ Len(parsed_fsm.transitions) = 2

====
